---------------------------- MODULE Spec2Model ----------------------------
(***************************************************************************)
(* A model of the voice/text chat front-end: the chat components (the      *)
(* simulated one, the canonical chained one, the echo one and the          *)
(* two-fetcher one), the relay endpoints they talk to and queryDeepSeek.   *)
(*                                                                         *)
(* One step of the model is one task of the browser's event loop: an event *)
(* handler, the continuation of an await, a fetcher transition followed by *)
(* the effects whose dependencies it changed.  React state is committed at *)
(* the end of the task, so a handler or effect reads the state of the      *)
(* render it was created in.                                               *)
(*                                                                         *)
(* Strings are tuples of strings, so that a template literal is a          *)
(* concatenation and trim() is computed.  JSON objects are records; a      *)
(* missing property is a missing field.                                    *)
(***************************************************************************)
EXTENDS Integers, Sequences, FiniteSets, TLC

\* Bound of the model: the user actions accepted in one run, text
\* submissions and recording sessions (getUserMedia requests) together.
MaxFlows == 2

\* Bound of the model: the chunks of one upstream completion stream.
MaxChunks == 3

VARIABLES
    variant,            \* which chat component is mounted
    messages,           \* useState<Message[]>
    textInput,          \* useState("")
    isRecording,        \* useState(false)
    isProcessing,       \* useState(false), simulated component only
    messageCounter,     \* useState(0), echo component only
    mediaRecorderRef,   \* useRef<MediaRecorder|null>: 0 is null, else a recorder
    chunksRef,          \* useRef<Blob[]>
    recorders,          \* the MediaRecorder/MediaStream objects created so far
    transcribeFetcher,  \* useFetcher(): state, data, the submission in flight
    textFetcher,        \* useFetcher() of the two-fetcher component
    textFlights,        \* pending fetch("/api/textmessage") continuations
    timers,             \* pending setTimeout callbacks, simulated component
    crashed,            \* an effect threw: the ErrorBoundary replaced the component
    lastEvent,          \* history: the task that ran last
    served,             \* history: the request a relay endpoint served last
    stream              \* the streamDeepSeek generator a consumer is iterating

vars == <<variant, messages, textInput, isRecording, isProcessing,
          messageCounter, mediaRecorderRef, chunksRef, recorders,
          transcribeFetcher, textFetcher, textFlights, timers, crashed,
          lastEvent, served, stream>>

\* everything but the history variable
progVars == <<variant, messages, textInput, isRecording, isProcessing,
              messageCounter, mediaRecorderRef, chunksRef, recorders,
              transcribeFetcher, textFetcher, textFlights, timers, crashed>>

Variants == {"simulated", "canonical", "echo", "twofetcher"}

-----------------------------------------------------------------------------
(* Strings and JSON                                                        *)

SP == " "

\* what the user may type: whitespace only, or a text with a leading space
\* (the input is empty at mount and after a reset)
Inputs == {<<SP>>, <<SP, "a">>}

RECURSIVE TrimStart(_)
TrimStart(s) ==
    IF s = <<>> THEN <<>>
    ELSE IF Head(s) = SP THEN TrimStart(Tail(s)) ELSE s

RECURSIVE TrimEnd(_)
TrimEnd(s) ==
    IF s = <<>> THEN <<>>
    ELSE IF s[Len(s)] = SP THEN TrimEnd(SubSeq(s, 1, Len(s) - 1)) ELSE s

\* String.prototype.trim
Trim(s) == TrimEnd(TrimStart(s))

\* a mutant of IsBlank: the input is tested without trim()
IsBlankNoTrim(s) == s = <<>>

\* !textInput.trim()
IsBlank(s) == Trim(s) = <<>>

\* the value of a missing property
Undefined == <<"undefined">>

Has(obj, f) == f \in DOMAIN obj

Get(obj, f) == IF Has(obj, f) THEN obj[f] ELSE Undefined

\* obj.f is truthy: present and, for the strings of this model, not empty
Truthy(obj, f) == Has(obj, f) /\ obj[f] # <<>>

\* fetcher.data before any response
NoData == [nodata |-> TRUE]


-----------------------------------------------------------------------------
(* The servers: queryDeepSeek and the relay endpoints, as functions of the *)
(* request and of what the upstream services answer.                       *)

\* Answers of the chat-completion API to one create() call: a reply, an
\* empty choices list, a rejection with an Error, a rejection with a value
\* that is no Error.
DeepSeekOutcomes ==
    << [kind |-> "reply", content |-> <<"r">>],
       [kind |-> "empty", content |-> <<>>],
       [kind |-> "reject", content |-> <<"upstream down">>],
       [kind |-> "rejectValue", content |-> <<>>] >>

\* queryDeepSeek(messages): one create() call inside try/catch
queryDeepSeek(msgs, o) ==
    CASE o.kind = "reply" ->
           [message |-> [role |-> "assistant", content |-> o.content],
            done |-> TRUE]
      [] o.kind = "empty" ->
           \* response.choices[0] is undefined: reading .message throws
           [error |-> <<"Cannot read properties of undefined">>, code |-> 500]
      [] o.kind = "reject" -> [error |-> o.content, code |-> 500]
      [] OTHER -> [error |-> <<"Unknown error occurred">>, code |-> 500]

\* a mutant of queryDeepSeekCalls: the call is made again after a failure
queryDeepSeekCallsRetry(msgs) ==
    << [to |-> "deepseek", messages |-> msgs],
       [to |-> "deepseek", messages |-> msgs] >>

\* the create() calls one queryDeepSeek invocation makes
queryDeepSeekCalls(msgs) == << [to |-> "deepseek", messages |-> msgs] >>

\* Answers of the transcription service to the upload, as the chained relay
\* and the echo component's relay see them: a 2xx JSON body (with or without
\* an error field), a non-2xx status, a body that is no JSON, a failed fetch.
TranscriptionBodies ==
    << [text |-> <<"hi">>, language |-> <<"en">>],
       [error |-> <<"no speech">>] >>

\* ... and as the two-fetcher component's relay sees them: the service also
\* runs the model and may attach ai_response
TranscriptionBodiesAi ==
    << [text |-> <<"hi">>, language |-> <<"en">>],
       [text |-> <<"hi">>, language |-> <<"en">>,
        ai_response |-> [response |-> <<"r">>]],
       [text |-> <<"hi">>, language |-> <<"en">>,
        ai_response |-> [response |-> <<>>, error |-> <<"model down">>]],
       [error |-> <<"no speech">>] >>

UpstreamFailures ==
    << [kind |-> "status", status |-> 500],
       [kind |-> "nonjson", status |-> 200],
       [kind |-> "throw", status |-> 0] >>

OkOutcome(b) == [kind |-> "ok", status |-> 200, body |-> b]

\* The form of a request, as request.formData() yields it: the field `file`
\* is a Blob, a string, or absent; a body that is no form makes formData()
\* reject.
BlobForm(chunks) == [file |-> [isBlob |-> TRUE, parts |-> chunks]]

StringForm == [file |-> [isBlob |-> FALSE, parts |-> <<>>]]

NoFileForm == [other |-> <<"x">>]

MalformedForm == [malformed |-> TRUE]

\* a mutant of HasAudio: the instanceof test is dropped
HasAudioAnyFile(form) == Has(form, "file")

\* audioBlob && audioBlob instanceof Blob
HasAudio(form) == Has(form, "file") /\ form.file.isBlob

NoAudioResponse ==
    [status |-> 400, body |-> [error |-> <<"No audio file provided">>],
     calls |-> <<>>]

\* the upload a transcription relay sends on
TranscribeCall(form) == << [to |-> "transcribe", form |-> form] >>

\* a mutant of ChainedRelay: queryDeepSeek is called whatever the
\* transcription service answered
ChainedRelayQueriesAnyway(form, t, q) ==
    IF Has(form, "malformed")
    THEN [status |-> 500, body |-> [error |-> <<"Failed to process request">>],
          calls |-> <<>>]
    ELSE IF ~HasAudio(form) THEN NoAudioResponse
    ELSE LET msgs == << [role |-> "user",
                         content |-> IF t.kind = "ok" THEN Get(t.body, "text")
                                     ELSE Undefined] >>
         IN  IF t.kind # "ok"
             THEN [status |-> 500,
                   body |-> [error |-> <<"Failed to process request">>],
                   calls |-> TranscribeCall(form) \o queryDeepSeekCalls(msgs)]
             ELSE [status |-> 200,
                   body |-> [transcription |-> t.body,
                             response |-> queryDeepSeek(msgs, q)],
                   calls |-> TranscribeCall(form) \o queryDeepSeekCalls(msgs)]

\* a mutant of ChainedRelay: queryDeepSeek is called before the upload, with
\* no text
ChainedRelayQueryFirst(form, t, q) ==
    IF Has(form, "malformed")
    THEN [status |-> 500, body |-> [error |-> <<"Failed to process request">>],
          calls |-> <<>>]
    ELSE IF ~HasAudio(form) THEN NoAudioResponse
    ELSE IF t.kind # "ok"
    THEN [status |-> 500, body |-> [error |-> <<"Failed to process request">>],
          calls |-> TranscribeCall(form)]
    ELSE LET msgs == << [role |-> "user", content |-> <<>>] >>
         IN  [status |-> 200,
              body |-> [transcription |-> t.body,
                        response |-> queryDeepSeek(msgs, q)],
              calls |-> queryDeepSeekCalls(msgs) \o TranscribeCall(form)]

\* the chained transcription relay: transcribe, then queryDeepSeek
ChainedRelay(form, t, q) ==
    IF Has(form, "malformed")
    THEN \* request.formData() threw: the catch block
         [status |-> 500, body |-> [error |-> <<"Failed to process request">>],
          calls |-> <<>>]
    ELSE IF ~HasAudio(form) THEN NoAudioResponse
    ELSE IF t.kind # "ok"
    THEN \* fetch threw, !ok threw, or .json() threw: the catch block
         [status |-> 500, body |-> [error |-> <<"Failed to process request">>],
          calls |-> TranscribeCall(form)]
    ELSE LET msgs == << [role |-> "user", content |-> Get(t.body, "text")] >>
         IN  [status |-> 200,
              body |-> [transcription |-> t.body,
                        response |-> queryDeepSeek(msgs, q)],
              calls |-> TranscribeCall(form) \o queryDeepSeekCalls(msgs)]

\* the plain transcription relay: the service's JSON is passed through
TranscribeRelay(form, t) ==
    IF Has(form, "malformed")
    THEN [status |-> 500, body |-> [error |-> <<"Failed to transcribe audio">>],
          calls |-> <<>>]
    ELSE IF ~HasAudio(form) THEN NoAudioResponse
    ELSE IF t.kind # "ok"
    THEN [status |-> 500, body |-> [error |-> <<"Failed to transcribe audio">>],
          calls |-> TranscribeCall(form)]
    ELSE [status |-> 200, body |-> t.body, calls |-> TranscribeCall(form)]

\* Answers of the text-processing service
ProcessTextBodies ==
    << [text |-> <<"t">>, ai_response |-> [response |-> <<"r">>]],
       [text |-> <<"t">>,
        ai_response |-> [response |-> <<>>, error |-> <<"model down">>]],
       [error |-> <<"bad text">>] >>

\* The process-text relay.  body is what request.json() yields: the parsed
\* object, or a syntaxError when the body is no JSON and json() rejects.
\* JSON.stringify({text: body.text}) drops an undefined text.
ProcessTextRelay(body, t) ==
    LET call == << [to |-> "process-text", text |-> Get(body, "text")] >>
    IN  IF Has(body, "syntaxError")
        THEN [status |-> 500, body |-> [error |-> <<"Failed to process text">>],
              calls |-> <<>>]
        ELSE IF t.kind # "ok"
        THEN [status |-> 500, body |-> [error |-> <<"Failed to process text">>],
              calls |-> call]
        ELSE [status |-> 200, body |-> t.body, calls |-> call]

\* The text relay behind /api/textmessage; body as for ProcessTextRelay.
\* The catch block answers with the message of what was thrown.
TextRelay(body, q) ==
    IF Has(body, "syntaxError")
    THEN [status |-> 500, body |-> [error |-> body.syntaxError], calls |-> <<>>]
    ELSE IF ~Truthy(body, "message")
    THEN [status |-> 400, body |-> [error |-> <<"Message is required">>],
          calls |-> <<>>]
    ELSE LET msgs == << [role |-> "user", content |-> body.message] >>
             r == queryDeepSeek(msgs, q)
         IN  IF Has(r, "error")
             THEN [status |-> IF Has(r, "code") /\ r.code # 0 THEN r.code ELSE 500,
                   body |-> [error |-> r.error],
                   calls |-> queryDeepSeekCalls(msgs)]
             ELSE [status |-> 200, body |-> r, calls |-> queryDeepSeekCalls(msgs)]

-----------------------------------------------------------------------------
(* The message log                                                         *)

Msg(c, t, v) == [content |-> c, type |-> t, isVoice |-> v]

\* a mutant of addMessage: the new entry is put in front of the log
addMessagePrepend(msgs, m) ==
    << [id |-> Len(msgs) + 1, content |-> m.content,
        type |-> m.type, isVoice |-> m.isVoice] >> \o msgs

\* addMessage of the canonical and the two-fetcher component: the id is
\* `msg-${Date.now()}-${random}`, modelled as a value not used before (the
\* entry's position in the log).  The simulated component's Date.now() ids
\* are modelled the same way.
addMessage(msgs, m) ==
    Append(msgs, [id |-> Len(msgs) + 1, content |-> m.content,
                  type |-> m.type, isVoice |-> m.isVoice])

\* addMessage of the echo component: the id is `msg-${messageCounter}`, with
\* messageCounter read from the render the caller was created in (c);
\* setMessageCounter(prev => prev + 1) shows only in the next render.
addMessageCounter(msgs, m, c) ==
    Append(msgs, [id |-> c, content |-> m.content,
                  type |-> m.type, isVoice |-> m.isVoice])

\* the addMessage calls of one task, in order; c is the task's messageCounter
RECURSIVE AddAll(_, _, _)
AddAll(msgs, adds, c) ==
    IF adds = <<>> THEN msgs
    ELSE AddAll(IF variant = "echo"
                THEN addMessageCounter(msgs, Head(adds), c)
                ELSE addMessage(msgs, Head(adds)),
                Tail(adds), c)

MicError ==
    Msg(<<"Error accessing microphone. Please check your permissions.">>,
        "assistant", FALSE)
VoiceError ==
    Msg(<<"Sorry, there was an error processing your voice message.">>,
        "assistant", FALSE)
ReplyError ==
    Msg(<<"Sorry, there was an error getting a response.">>, "assistant", FALSE)
TextError ==
    Msg(<<"Sorry, there was an error processing your message.">>,
        "assistant", FALSE)

\* what one run of an effect does: the addMessage calls it made, and whether
\* it then threw
Ran(adds, throws) == [adds |-> adds, throws |-> throws]
Nothing == Ran(<<>>, FALSE)

-----------------------------------------------------------------------------
(* The effects on the fetchers; d is fetcher.data and st is fetcher.state  *)
(* of the render that scheduled the effect.                                *)

\* a mutant of CanonicalEffect: the fetcher's state is not tested
CanonicalEffectAnyState(d, st) ==
    IF d = NoData THEN Nothing
    ELSE IF ~Has(d, "transcription") THEN Ran(<<>>, TRUE)
    ELSE IF ~Truthy(d.transcription, "error")
    THEN LET user == Msg(Get(d.transcription, "text"), "user", TRUE)
         IN  IF Has(d, "response")
             THEN IF Has(d.response, "message")
                  THEN Ran(<<user, Msg(Get(d.response.message, "content"),
                                       "assistant", FALSE)>>, FALSE)
                  ELSE Ran(<<user>>, TRUE)
             ELSE Ran(<<user, ReplyError>>, FALSE)
    ELSE Ran(<<VoiceError>>, FALSE)

\* canonical component, "Handle fetcher response"
CanonicalEffect(d, st) ==
    IF d = NoData \/ st # "idle" THEN Nothing
    ELSE IF ~Has(d, "transcription")
    THEN \* response.transcription is undefined: reading .error throws
         Ran(<<>>, TRUE)
    ELSE IF ~Truthy(d.transcription, "error")
    THEN LET user == Msg(Get(d.transcription, "text"), "user", TRUE)
         IN  IF Has(d, "response")
             THEN IF Has(d.response, "message")
                  THEN Ran(<<user, Msg(Get(d.response.message, "content"),
                                       "assistant", FALSE)>>, FALSE)
                  ELSE \* response.response.message is undefined:
                       \* reading .content throws
                       Ran(<<user>>, TRUE)
             ELSE Ran(<<user, ReplyError>>, FALSE)
    ELSE Ran(<<VoiceError>>, FALSE)

\* echo component, "Handle fetcher response"
EchoEffect(d, st) ==
    IF d # NoData /\ ~Truthy(d, "error") /\ st = "idle"
    THEN LET t == Get(d, "text")
         IN  Ran(<<Msg(t, "user", TRUE),
                   Msg(<<"Here's what I heard: \"">> \o t \o <<"\"">>,
                       "assistant", FALSE)>>, FALSE)
    ELSE IF d # NoData /\ Truthy(d, "error")
    THEN Ran(<<VoiceError>>, FALSE)
    ELSE Nothing

\* the turn made of ai_response, if it carries a response or an error
AiTurns(d) ==
    IF Has(d, "ai_response") /\ Truthy(d.ai_response, "response")
    THEN <<Msg(d.ai_response.response, "ai", FALSE)>>
    ELSE IF Has(d, "ai_response") /\ Truthy(d.ai_response, "error")
    THEN <<Msg(<<"AI Error: ">> \o d.ai_response.error, "assistant", FALSE)>>
    ELSE <<>>

\* a mutant of TwoFetcherTranscribeEffect: the informational turn is dropped
TwoFetcherTranscribeEffectNoEcho(d, st) ==
    IF d # NoData /\ ~Truthy(d, "error") /\ st = "idle"
    THEN Ran(<<Msg(Get(d, "text"), "user", TRUE)>> \o AiTurns(d), FALSE)
    ELSE IF d # NoData /\ Truthy(d, "error")
    THEN Ran(<<Msg(<<"Error: ">> \o d.error, "assistant", FALSE)>>, FALSE)
    ELSE Nothing

\* two-fetcher component, the effect on transcribeFetcher
TwoFetcherTranscribeEffect(d, st) ==
    IF d # NoData /\ ~Truthy(d, "error") /\ st = "idle"
    THEN LET t == Get(d, "text")
         IN  Ran(<<Msg(t, "user", TRUE),
                   Msg(<<"Transcription (">> \o Get(d, "language")
                         \o <<"): \"">> \o t \o <<"\"">>, "assistant", FALSE)>>
                 \o AiTurns(d), FALSE)
    ELSE IF d # NoData /\ Truthy(d, "error")
    THEN Ran(<<Msg(<<"Error: ">> \o d.error, "assistant", FALSE)>>, FALSE)
    ELSE Nothing

\* two-fetcher component, the effect on textFetcher
TwoFetcherTextEffect(d, st) ==
    IF d # NoData /\ ~Truthy(d, "error") /\ st = "idle"
    THEN Ran(AiTurns(d), FALSE)
    ELSE IF d # NoData /\ Truthy(d, "error")
    THEN Ran(<<Msg(<<"Error: ">> \o d.error, "assistant", FALSE)>>, FALSE)
    ELSE Nothing

\* the mounted component's effect on transcribeFetcher
TranscribeEffect(d, st) ==
    CASE variant = "canonical" -> CanonicalEffect(d, st)
      [] variant = "echo" -> EchoEffect(d, st)
      [] variant = "twofetcher" -> TwoFetcherTranscribeEffect(d, st)
      [] OTHER -> Nothing

-----------------------------------------------------------------------------
(* State of the components                                                 *)

NoForm == [none |-> TRUE]

IdleFetcher == [state |-> "idle", data |-> NoData, form |-> NoForm]

Recorders == 1..MaxFlows

\* a recorder nobody created yet
NoRecorder == [state |-> "none", live |-> FALSE, counter |-> 0]

\* const isTranscribing = transcribeFetcher.state !== "idle"
isTranscribing == transcribeFetcher.state # "idle"

\* two-fetcher component: const isProcessing = ... || ...
isProcessingFetchers ==
    transcribeFetcher.state # "idle" \/ textFetcher.state # "idle"

\* a mutant of VoiceButtonDisabled: the button is never disabled
VoiceButtonNeverDisabled == FALSE

\* the voice button's disabled attribute
VoiceButtonDisabled ==
    CASE variant = "simulated" -> FALSE
      [] variant = "twofetcher" -> isProcessingFetchers
      [] OTHER -> isTranscribing

\* the text input's disabled attribute
TextInputDisabled ==
    CASE variant = "simulated" -> FALSE
      [] variant = "twofetcher" -> isProcessingFetchers
      [] OTHER -> isTranscribing

\* the second operand of handleTextSubmit's guard
TextSubmitBusy ==
    CASE variant = "simulated" -> isProcessing
      [] variant = "twofetcher" -> isProcessingFetchers
      [] OTHER -> isTranscribing

\* the typed user turns of the log: one per accepted text submission
TypedTurns == {i \in 1..Len(messages) :
                 messages[i].type = "user" /\ ~messages[i].isVoice}

UsedRecorders == {r \in Recorders : recorders[r].state # "none"}

\* the user actions accepted so far
Flows == Cardinality(TypedTurns) + Cardinality(UsedRecorders)

\* the states of the specification's Turn Controller
InRecording == isRecording
AwaitingTranscription == transcribeFetcher.state # "idle"
AwaitingReply ==
    textFlights # <<>> \/ textFetcher.state # "idle" \/ timers # <<>>
ControllerIdle ==
    /\ ~InRecording /\ ~AwaitingTranscription /\ ~AwaitingReply
    /\ \A r \in Recorders : recorders[r].state \notin {"pending", "stopping"}

\* streamDeepSeek has not been called
NoStream == [status |-> "none", up |-> <<>>, pos |-> 0, yielded |-> <<>>]

\* no relay endpoint has served a request yet
NoRequest == [endpoint |-> "none"]

\* the history record of a task; base is the length of the log before it
Ev(n) == [name |-> n, base |-> Len(messages), text |-> <<>>, idle |-> FALSE]

Init ==
    /\ variant \in Variants
    /\ messages = <<>>
    /\ textInput = <<>>
    /\ isRecording = FALSE
    /\ isProcessing = FALSE
    /\ messageCounter = 0
    /\ mediaRecorderRef = 0
    /\ chunksRef = <<>>
    /\ recorders = [r \in Recorders |-> NoRecorder]
    /\ transcribeFetcher = IdleFetcher
    /\ textFetcher = IdleFetcher
    /\ textFlights = <<>>
    /\ timers = <<>>
    /\ crashed = FALSE
    /\ lastEvent = [name |-> "mount", base |-> 0, text |-> <<>>, idle |-> FALSE]
    /\ served = NoRequest
    /\ stream = NoStream

\* The commit that ends a task: the addMessage calls `adds` made with the
\* task's messageCounter c, and whether an effect threw.
Commit(adds, throws, c) ==
    /\ messages' = AddAll(messages, adds, c)
    /\ messageCounter' = IF variant = "echo"
                         THEN messageCounter + Len(adds) ELSE messageCounter
    /\ crashed' = throws

-----------------------------------------------------------------------------
(* Typing and the text form                                                *)

\* onChange of the text input
SetTextInput(v) ==
    /\ ~crashed
    /\ ~TextInputDisabled
    /\ v # textInput
    /\ textInput' = v
    /\ UNCHANGED <<served, stream>>
    /\ lastEvent' = Ev("SetTextInput")
    /\ UNCHANGED <<variant, messages, isRecording, isProcessing,
                   messageCounter, mediaRecorderRef, chunksRef, recorders,
                   transcribeFetcher, textFetcher, textFlights, timers, crashed>>

\* simulated component: user turn, then the reply after a timeout
SimulatedTextSubmit ==
    /\ messages' = addMessage(messages, Msg(textInput, "user", FALSE))
    /\ isProcessing' = TRUE
    /\ timers' = Append(timers, [kind |-> "text", text |-> textInput])
    /\ UNCHANGED <<textInput, messageCounter, transcribeFetcher, textFetcher,
                   textFlights, crashed>>

\* a mutant of CanonicalTextSubmit: the input is cleared at the submit
CanonicalTextSubmitClearsInput ==
    /\ messages' = addMessage(messages, Msg(textInput, "user", FALSE))
    /\ textFlights' = Append(textFlights,
                             [text |-> textInput, base |-> Len(messages),
                              idle |-> ControllerIdle])
    /\ textInput' = <<>>
    /\ UNCHANGED <<isProcessing, messageCounter, transcribeFetcher,
                   textFetcher, timers, crashed>>

\* canonical component: user turn, then fetch("/api/textmessage") is awaited
CanonicalTextSubmit ==
    /\ messages' = addMessage(messages, Msg(textInput, "user", FALSE))
    /\ textFlights' = Append(textFlights,
                             [text |-> textInput, base |-> Len(messages),
                              idle |-> ControllerIdle])
    /\ UNCHANGED <<textInput, isProcessing, messageCounter, transcribeFetcher,
                   textFetcher, timers, crashed>>

\* echo component: user turn and the echo, both in this task
EchoTextSubmit ==
    /\ Commit(<<Msg(textInput, "user", FALSE),
                Msg(<<"I received your message: \"">> \o textInput
                      \o <<"\". How can I assist you further?">>,
                    "assistant", FALSE)>>, FALSE, messageCounter)
    /\ textInput' = <<>>
    /\ UNCHANGED <<isProcessing, transcribeFetcher, textFetcher, textFlights,
                   timers>>

\* two-fetcher component: user turn, textFetcher.submit; the effect on
\* textFetcher runs again because its state changed
TwoFetcherTextSubmit ==
    LET eff == TwoFetcherTextEffect(textFetcher.data, "submitting")
    IN  /\ Commit(<<Msg(textInput, "user", FALSE)>> \o eff.adds, eff.throws,
                  messageCounter)
        /\ textFetcher' = [state |-> "submitting", data |-> textFetcher.data,
                           form |-> [text |-> textInput]]
        /\ textInput' = <<>>
        /\ UNCHANGED <<isProcessing, transcribeFetcher, textFlights, timers>>

\* onSubmit of the text form
HandleTextSubmit ==
    /\ ~crashed
    /\ UNCHANGED <<served, stream>>
    /\ lastEvent' = Ev("HandleTextSubmit")
    /\ UNCHANGED <<variant, isRecording, mediaRecorderRef, chunksRef, recorders>>
    /\ IF IsBlank(textInput) \/ TextSubmitBusy
       THEN UNCHANGED <<messages, textInput, isProcessing, messageCounter,
                        transcribeFetcher, textFetcher, textFlights, timers,
                        crashed>>
       ELSE /\ Flows < MaxFlows
            /\ CASE variant = "simulated" -> SimulatedTextSubmit
                 [] variant = "canonical" -> CanonicalTextSubmit
                 [] variant = "echo" -> EchoTextSubmit
                 [] OTHER -> TwoFetcherTextSubmit

-----------------------------------------------------------------------------
(* Recording                                                               *)

\* startRecording up to its await: getUserMedia is requested.  The recorder
\* to be is remembered with the messageCounter of this render, which the
\* catch block's addMessage will read.
startRecording ==
    LET r == Cardinality(UsedRecorders) + 1
    IN  /\ Flows < MaxFlows
        /\ recorders' = [recorders EXCEPT
                           ![r] = [state |-> "pending", live |-> FALSE,
                                   counter |-> messageCounter]]
        /\ UNCHANGED <<isRecording>>

\* stopRecording: stop() queues the recorder's dataavailable and stop events;
\* stop() of a recorder that is not recording does nothing
stopRecording ==
    IF mediaRecorderRef # 0 /\ isRecording
    THEN /\ recorders' = [recorders EXCEPT
                            ![mediaRecorderRef] =
                               [state |-> IF @.state = "recording"
                                          THEN "stopping" ELSE @.state,
                                live |-> FALSE, counter |-> @.counter]]
         /\ isRecording' = FALSE
    ELSE UNCHANGED <<recorders, isRecording>>

\* onClick of the voice button; a disabled button delivers no click
handleVoiceClick ==
    /\ ~crashed
    /\ UNCHANGED <<served, stream>>
    /\ lastEvent' = Ev("handleVoiceClick")
    /\ UNCHANGED <<variant, messages, textInput, isProcessing, messageCounter,
                   mediaRecorderRef, chunksRef, transcribeFetcher, textFetcher,
                   textFlights, timers, crashed>>
    /\ IF VoiceButtonDisabled THEN UNCHANGED <<recorders, isRecording>>
       ELSE IF isRecording THEN stopRecording
       ELSE startRecording

\* getUserMedia resolves: the rest of startRecording's try block
GetUserMediaResolves(r) ==
    /\ ~crashed
    /\ recorders[r].state = "pending"
    /\ recorders' = [recorders EXCEPT
                       ![r] = [state |-> "recording", live |-> TRUE,
                               counter |-> @.counter]]
    /\ mediaRecorderRef' = r
    /\ chunksRef' = <<>>
    /\ isRecording' = TRUE
    /\ UNCHANGED <<served, stream>>
    /\ lastEvent' = Ev("GetUserMediaResolves")
    /\ UNCHANGED <<variant, messages, textInput, isProcessing, messageCounter,
                   transcribeFetcher, textFetcher, textFlights, timers, crashed>>

\* getUserMedia resolves, but new MediaRecorder(stream) or start() throws:
\* the catch block runs with the stream acquired, and nothing stops its
\* tracks.  When start() threw, the ref and the chunk buffer were already set.
MediaRecorderThrows(r) ==
    /\ ~crashed
    /\ recorders[r].state = "pending"
    /\ recorders' = [recorders EXCEPT
                       ![r] = [state |-> "failed", live |-> TRUE,
                               counter |-> @.counter]]
    /\ \E at \in {"constructor", "start"} :
         IF at = "start"
         THEN mediaRecorderRef' = r /\ chunksRef' = <<>>
         ELSE UNCHANGED <<mediaRecorderRef, chunksRef>>
    /\ Commit(IF variant = "simulated" THEN <<>> ELSE <<MicError>>, FALSE,
              recorders[r].counter)
    /\ UNCHANGED <<served, stream>>
    /\ lastEvent' = Ev("MediaRecorderThrows")
    /\ UNCHANGED <<variant, textInput, isRecording, isProcessing,
                   transcribeFetcher, textFetcher, textFlights, timers>>

\* a mutant of GetUserMediaRejects: every component only logs the error
GetUserMediaRejectsLogOnly(r) ==
    /\ ~crashed
    /\ recorders[r].state = "pending"
    /\ recorders' = [recorders EXCEPT
                       ![r] = [state |-> "denied", live |-> FALSE,
                               counter |-> @.counter]]
    /\ UNCHANGED <<served, stream>>
    /\ lastEvent' = Ev("GetUserMediaRejects")
    /\ UNCHANGED <<variant, messages, messageCounter, crashed, textInput,
                   isRecording, isProcessing, mediaRecorderRef, chunksRef,
                   transcribeFetcher, textFetcher, textFlights, timers>>

\* getUserMedia rejects: startRecording's catch block.  The simulated
\* component only logs the error.
GetUserMediaRejects(r) ==
    /\ ~crashed
    /\ recorders[r].state = "pending"
    /\ recorders' = [recorders EXCEPT
                       ![r] = [state |-> "denied", live |-> FALSE,
                               counter |-> @.counter]]
    /\ Commit(IF variant = "simulated" THEN <<>> ELSE <<MicError>>, FALSE,
              recorders[r].counter)
    /\ UNCHANGED <<served, stream>>
    /\ lastEvent' = Ev("GetUserMediaRejects")
    /\ UNCHANGED <<variant, textInput, isRecording, isProcessing,
                   mediaRecorderRef, chunksRef, transcribeFetcher, textFetcher,
                   textFlights, timers>>

\* fetcher.submit(formData): a submission replaces the one in flight; the
\* effect on the fetcher runs again if fetcher.state changed
SubmitTranscription(form) ==
    LET eff == IF transcribeFetcher.state = "submitting" THEN Nothing
               ELSE TranscribeEffect(transcribeFetcher.data, "submitting")
    IN  /\ transcribeFetcher' = [state |-> "submitting",
                                 data |-> transcribeFetcher.data,
                                 form |-> form]
        /\ Commit(eff.adds, eff.throws, messageCounter)
        /\ UNCHANGED <<isProcessing, timers>>

\* simulated component: handleVoiceSubmit
handleVoiceSubmit ==
    /\ messages' = addMessage(messages,
                              Msg(<<"Voice message sent">>, "user", TRUE))
    /\ isProcessing' = TRUE
    /\ timers' = Append(timers, [kind |-> "voice", text |-> <<>>])
    /\ UNCHANGED <<messageCounter, transcribeFetcher, crashed>>

\* The task a stop() queued: dataavailable delivers the recording as one
\* chunk (here the recorder's number), then onstop builds the Blob from
\* chunksRef.current and hands it on.
RecorderStopped(r) ==
    /\ ~crashed
    /\ recorders[r].state = "stopping"
    /\ recorders' = [recorders EXCEPT
                       ![r] = [state |-> "inactive", live |-> @.live,
                               counter |-> @.counter]]
    /\ chunksRef' = Append(chunksRef, r)
    /\ IF variant = "simulated" THEN handleVoiceSubmit
       ELSE SubmitTranscription(BlobForm(chunksRef'))
    /\ UNCHANGED <<served, stream>>
    /\ lastEvent' = Ev("RecorderStopped")
    /\ UNCHANGED <<variant, textInput, isRecording, mediaRecorderRef,
                   textFetcher, textFlights>>

-----------------------------------------------------------------------------
(* The transcribe fetcher                                                  *)

\* what the transcription service may answer to the mounted component's relay
TranscriptionOutcomes ==
    LET bodies == IF variant = "twofetcher" THEN TranscriptionBodiesAi
                  ELSE TranscriptionBodies
    IN  [i \in 1..Len(bodies) |-> OkOutcome(bodies[i])] \o UpstreamFailures

\* the action's response arrives: fetcher.data is its body, whatever its
\* status, and the fetcher goes on to revalidate
TranscribeActionDone ==
    /\ ~crashed
    /\ transcribeFetcher.state = "submitting"
    /\ \E i \in 1..Len(TranscriptionOutcomes), j \in 1..Len(DeepSeekOutcomes) :
         LET t == TranscriptionOutcomes[i]
             resp == IF variant = "canonical"
                     THEN ChainedRelay(transcribeFetcher.form, t,
                                       DeepSeekOutcomes[j])
                     ELSE TranscribeRelay(transcribeFetcher.form, t)
             eff == TranscribeEffect(resp.body, "loading")
         IN  /\ transcribeFetcher' = [state |-> "loading", data |-> resp.body,
                                      form |-> NoForm]
             /\ Commit(eff.adds, eff.throws, messageCounter)
    /\ UNCHANGED <<served, stream>>
    /\ lastEvent' = Ev("TranscribeActionDone")
    /\ UNCHANGED <<variant, textInput, isRecording, isProcessing,
                   mediaRecorderRef, chunksRef, recorders, textFetcher,
                   textFlights, timers>>

\* revalidation is over: the fetcher is idle again
TranscribeLoadDone ==
    /\ ~crashed
    /\ transcribeFetcher.state = "loading"
    /\ LET eff == TranscribeEffect(transcribeFetcher.data, "idle")
       IN  /\ transcribeFetcher' = [transcribeFetcher EXCEPT !.state = "idle"]
           /\ Commit(eff.adds, eff.throws, messageCounter)
    /\ UNCHANGED <<served, stream>>
    /\ lastEvent' = Ev("TranscribeLoadDone")
    /\ UNCHANGED <<variant, textInput, isRecording, isProcessing,
                   mediaRecorderRef, chunksRef, recorders, textFetcher,
                   textFlights, timers>>

-----------------------------------------------------------------------------
(* Replies to text submissions                                             *)

ProcessTextOutcomes ==
    [i \in 1..Len(ProcessTextBodies) |-> OkOutcome(ProcessTextBodies[i])]
    \o UpstreamFailures

\* two-fetcher component: the process-text action's response arrives
TextActionDone ==
    /\ ~crashed
    /\ textFetcher.state = "submitting"
    /\ \E i \in 1..Len(ProcessTextOutcomes) :
         LET resp == ProcessTextRelay(textFetcher.form, ProcessTextOutcomes[i])
             eff == TwoFetcherTextEffect(resp.body, "loading")
         IN  /\ textFetcher' = [state |-> "loading", data |-> resp.body,
                                form |-> NoForm]
             /\ Commit(eff.adds, eff.throws, messageCounter)
    /\ UNCHANGED <<served, stream>>
    /\ lastEvent' = Ev("TextActionDone")
    /\ UNCHANGED <<variant, textInput, isRecording, isProcessing,
                   mediaRecorderRef, chunksRef, recorders, transcribeFetcher,
                   textFlights, timers>>

\* two-fetcher component: textFetcher is idle again
TextLoadDone ==
    /\ ~crashed
    /\ textFetcher.state = "loading"
    /\ LET eff == TwoFetcherTextEffect(textFetcher.data, "idle")
       IN  /\ textFetcher' = [textFetcher EXCEPT !.state = "idle"]
           /\ Commit(eff.adds, eff.throws, messageCounter)
    /\ UNCHANGED <<served, stream>>
    /\ lastEvent' = Ev("TextLoadDone")
    /\ UNCHANGED <<variant, textInput, isRecording, isProcessing,
                   mediaRecorderRef, chunksRef, recorders, transcribeFetcher,
                   textFlights, timers>>

\* What the browser hands to the awaiting handleTextSubmit: the relay's
\* response, a body that is no JSON (response.json() throws), or a failed
\* fetch.
FetchResults ==
    [j \in 1..Len(DeepSeekOutcomes) |-> [kind |-> "response", q |-> j]]
    \o << [kind |-> "nonjson", q |-> 1], [kind |-> "throw", q |-> 1] >>

\* canonical handleTextSubmit after its awaits: the one turn it appends
TextReplyTurn(text, f) ==
    IF f.kind # "response" THEN TextError
    ELSE LET data == TextRelay([message |-> text], DeepSeekOutcomes[f.q]).body
         IN  IF ~Truthy(data, "error")
             THEN IF Has(data, "message")
                  THEN Msg(Get(data.message, "content"), "assistant", FALSE)
                  ELSE \* data.message is undefined: the catch block
                       TextError
             ELSE ReplyError

Remove(seq, i) == SubSeq(seq, 1, i - 1) \o SubSeq(seq, i + 1, Len(seq))

\* canonical component: a pending fetch("/api/textmessage") settles and
\* handleTextSubmit runs to its end
TextFetchDone(i) ==
    /\ ~crashed
    /\ i \in 1..Len(textFlights)
    /\ \E k \in 1..Len(FetchResults) :
         messages' = addMessage(messages,
                                TextReplyTurn(textFlights[i].text,
                                              FetchResults[k]))
    /\ textInput' = <<>>
    /\ textFlights' = Remove(textFlights, i)
    /\ UNCHANGED <<served, stream>>
    /\ lastEvent' = [name |-> "TextFetchDone", base |-> textFlights[i].base,
                     text |-> textFlights[i].text, idle |-> textFlights[i].idle]
    /\ UNCHANGED <<variant, isRecording, isProcessing, messageCounter,
                   mediaRecorderRef, chunksRef, recorders, transcribeFetcher,
                   textFetcher, timers, crashed>>

\* simulated component: the oldest setTimeout callback runs
TimerFires ==
    /\ ~crashed
    /\ timers # <<>>
    /\ LET t == Head(timers)
       IN  /\ messages' =
                 addMessage(messages,
                    IF t.kind = "voice"
                    THEN Msg(<<"I heard your voice message! How can I help you today?">>,
                             "assistant", FALSE)
                    ELSE Msg(<<"I received your message: \"">> \o t.text
                               \o <<"\". How can I assist you further?">>,
                             "assistant", FALSE))
           /\ textInput' = IF t.kind = "text" THEN <<>> ELSE textInput
    /\ isProcessing' = FALSE
    /\ timers' = Tail(timers)
    /\ UNCHANGED <<served, stream>>
    /\ lastEvent' = Ev("TimerFires")
    /\ UNCHANGED <<variant, isRecording, messageCounter, mediaRecorderRef,
                   chunksRef, recorders, transcribeFetcher, textFetcher,
                   textFlights, crashed>>

-----------------------------------------------------------------------------

Next ==
    \/ \E v \in Inputs : SetTextInput(v)
    \/ HandleTextSubmit
    \/ handleVoiceClick
    \/ \E r \in Recorders : GetUserMediaResolves(r)
    \/ \E r \in Recorders : GetUserMediaRejects(r)
    \/ \E r \in Recorders : MediaRecorderThrows(r)
    \/ \E r \in Recorders : RecorderStopped(r)
    \/ TranscribeActionDone
    \/ TranscribeLoadDone
    \/ TextActionDone
    \/ TextLoadDone
    \/ \E i \in 1..MaxFlows : TextFetchDone(i)
    \/ TimerFires

Spec == Init /\ [][Next]_vars

\* the user ends a running recording: the press of the enabled voice button
\* while isRecording
StopPress == isRecording /\ ~VoiceButtonDisabled /\ handleVoiceClick

\* what the browser and the network are assumed to do in the end: a
\* getUserMedia request settles, a stopped recorder delivers its events,
\* every request issued gets its response or its failure, a timer expires;
\* and the user ends a running recording
Completion ==
    /\ WF_vars(\E r \in Recorders : \/ GetUserMediaResolves(r)
                                    \/ GetUserMediaRejects(r)
                                    \/ MediaRecorderThrows(r))
    /\ WF_vars(\E r \in Recorders : RecorderStopped(r))
    /\ WF_vars(TranscribeActionDone)
    /\ WF_vars(TranscribeLoadDone)
    /\ WF_vars(TextActionDone)
    /\ WF_vars(TextLoadDone)
    /\ WF_vars(\E i \in 1..MaxFlows : TextFetchDone(i))
    /\ WF_vars(TimerFires)
    /\ WF_vars(StopPress)

FairSpec == Spec /\ Completion

-----------------------------------------------------------------------------
(* The relay endpoints as a server: any client may send any request, and   *)
(* one step serves one request from its arrival to its response.           *)

\* the forms a client may post to a transcription relay
AudioForms ==
    << BlobForm(<<1>>), BlobForm(<<>>), StringForm, NoFileForm, MalformedForm >>

\* the bodies a client may post to /api/textmessage
TextMessageBodies ==
    << [message |-> <<"a">>], [message |-> <<>>], [other |-> <<"x">>],
       [syntaxError |-> <<"Unexpected token h in JSON">>],
       [syntaxError |-> <<"Unexpected end of JSON input">>] >>

\* the bodies a client may post to the process-text relay
ProcessTextRequests ==
    << [text |-> <<"t">>], [text |-> <<>>], [other |-> <<"x">>],
       [syntaxError |-> <<"Unexpected token h in JSON">>] >>

\* what an upstream service may answer a relay: the failures above and two
\* more that differ from them in the status or in the message only
RelayUpstreamFailures ==
    UpstreamFailures
    \o << [kind |-> "status", status |-> 503], [kind |-> "throw", status |-> 1] >>

TranscriptionAnswers ==
    [i \in 1..Len(TranscriptionBodies) |-> OkOutcome(TranscriptionBodies[i])]
    \o RelayUpstreamFailures

ProcessTextAnswers ==
    [i \in 1..Len(ProcessTextBodies) |-> OkOutcome(ProcessTextBodies[i])]
    \o RelayUpstreamFailures

\* the chat-completion API's answers, with a second rejection that differs
\* from the first in its message only
DeepSeekAnswers ==
    DeepSeekOutcomes \o << [kind |-> "reject", content |-> <<"rate limited">>] >>

\* no upstream service is asked by this endpoint
NotAsked == [kind |-> "none"]

Served(e, req, t, q, resp) ==
    [endpoint |-> e, request |-> req, t |-> t, q |-> q, response |-> resp]

\* action of app.tsx
AppAction ==
    /\ \E f \in 1..Len(AudioForms), i \in 1..Len(TranscriptionAnswers),
          j \in 1..Len(DeepSeekAnswers) :
         served' = Served("chained", AudioForms[f], TranscriptionAnswers[i],
                          DeepSeekAnswers[j],
                          ChainedRelay(AudioForms[f], TranscriptionAnswers[i],
                                       DeepSeekAnswers[j]))
    /\ UNCHANGED <<progVars, lastEvent, stream>>

\* action of transcribe.ts
TranscribeAction ==
    /\ \E f \in 1..Len(AudioForms), i \in 1..Len(TranscriptionAnswers) :
         served' = Served("transcribe", AudioForms[f], TranscriptionAnswers[i],
                          NotAsked,
                          TranscribeRelay(AudioForms[f], TranscriptionAnswers[i]))
    /\ UNCHANGED <<progVars, lastEvent, stream>>

\* action of api.process-text.ts
ProcessTextAction ==
    /\ \E b \in 1..Len(ProcessTextRequests), i \in 1..Len(ProcessTextAnswers) :
         served' = Served("process-text", ProcessTextRequests[b],
                          ProcessTextAnswers[i], NotAsked,
                          ProcessTextRelay(ProcessTextRequests[b],
                                           ProcessTextAnswers[i]))
    /\ UNCHANGED <<progVars, lastEvent, stream>>

\* action behind /api/textmessage
TextMessageAction ==
    /\ \E b \in 1..Len(TextMessageBodies), j \in 1..Len(DeepSeekAnswers) :
         served' = Served("textmessage", TextMessageBodies[b], NotAsked,
                          DeepSeekAnswers[j],
                          TextRelay(TextMessageBodies[b], DeepSeekAnswers[j]))
    /\ UNCHANGED <<progVars, lastEvent, stream>>

\* the server does not depend on the component mounted in the browser
RelayInit == Init /\ variant = "canonical"

RelayNext ==
    \/ AppAction
    \/ TranscribeAction
    \/ ProcessTextAction
    \/ TextMessageAction

RelaySpec == RelayInit /\ [][RelayNext]_vars

-----------------------------------------------------------------------------
(* streamDeepSeek: an async generator over the chunks of a streamed        *)
(* completion.  One step is one next() of the consumer: the generator runs *)
(* to its next yield, to its end, or to the throw of its catch block.      *)

\* A chunk of the upstream stream: a content increment (possibly the empty
\* string), a chunk without choices[0] or without delta.content, or the
\* point where the upstream iterator rejects.
Chunks ==
    << [kind |-> "content", content |-> <<"a">>],
       [kind |-> "content", content |-> <<"b">>],
       [kind |-> "content", content |-> <<>>],
       [kind |-> "nocontent", content |-> <<>>],
       [kind |-> "fail", content |-> <<"socket hang up">>] >>

\* the upstream streams of at most MaxChunks chunks, as index sequences
RECURSIVE ChunkSeqs(_)
ChunkSeqs(n) ==
    IF n = 0 THEN {<<>>}
    ELSE ChunkSeqs(n - 1)
         \cup {Append(u, c) : u \in {v \in ChunkSeqs(n - 1) : Len(v) = n - 1},
                              c \in 1..Len(Chunks)}

\* a mutant of Yields: every chunk that has a content is yielded
YieldsDefined(c) == c.kind = "content"

\* if (chunk.choices[0]?.delta?.content): the chunk has a truthy content
Yields(c) == c.kind = "content" /\ c.content # <<>>

\* The generator resumed at position pos of upstream up: the for-await loop
\* runs until a chunk is yielded, the stream ends, or the iterator rejects.
RECURSIVE Resume(_, _)
Resume(up, pos) ==
    IF pos = Len(up) THEN [kind |-> "return", pos |-> pos, value |-> <<>>]
    ELSE LET c == Chunks[up[pos + 1]]
         IN  IF c.kind = "fail"
             THEN \* the catch block: throw new Error(error.message)
                  [kind |-> "throw", pos |-> pos + 1, value |-> c.content]
             ELSE IF Yields(c)
             THEN [kind |-> "yield", pos |-> pos + 1, value |-> c.content]
             ELSE Resume(up, pos + 1)

\* streamDeepSeek(messages) is called: nothing runs before the first next()
StreamCall ==
    /\ stream.status = "none"
    /\ \E up \in ChunkSeqs(MaxChunks), created \in BOOLEAN :
         stream' = [status |-> IF created THEN "suspended" ELSE "rejecting",
                    up |-> IF created THEN up ELSE <<>>,
                    pos |-> 0, yielded |-> <<>>]
    /\ UNCHANGED <<progVars, lastEvent, served>>

\* next() of the consumer while the generator is suspended at its start or at
\* a yield
StreamNext ==
    /\ stream.status = "suspended"
    /\ LET r == Resume(stream.up, stream.pos)
       IN  stream' = [status |-> CASE r.kind = "yield" -> "suspended"
                                   [] r.kind = "return" -> "returned"
                                   [] OTHER -> "thrown",
                      up |-> stream.up, pos |-> r.pos,
                      yielded |-> IF r.kind = "yield"
                                  THEN Append(stream.yielded, r.value)
                                  ELSE stream.yielded]
    /\ UNCHANGED <<progVars, lastEvent, served>>

\* the first next() when create() rejects: the catch block throws
StreamCreateRejects ==
    /\ stream.status = "rejecting"
    /\ stream' = [stream EXCEPT !.status = "thrown"]
    /\ UNCHANGED <<progVars, lastEvent, served>>

StreamInit == Init /\ variant = "canonical"

StreamNextStep ==
    \/ StreamCall
    \/ StreamNext
    \/ StreamCreateRejects

StreamSpec == StreamInit /\ [][StreamNextStep]_vars

-----------------------------------------------------------------------------
(* Claims                                                                  *)

\* the entries the last task appended to the log
Appended == SubSeq(messages, lastEvent.base + 1, Len(messages))

\* empty or whitespace only, spelled out
OnlySpaces(s) == \A i \in 1..Len(s) : s[i] = SP

\* C1: in the canonical component, when the flow of a text submission made
\* in Idle finishes, the log has grown by exactly two entries since the
\* submission: the user turn with the submitted text, then one assistant turn.
C1_TextSubmitGrowsByTwo ==
    (variant = "canonical" /\ lastEvent.name = "TextFetchDone" /\ lastEvent.idle)
    => /\ Len(messages) = lastEvent.base + 2
       /\ messages[lastEvent.base + 1].type = "user"
       /\ messages[lastEvent.base + 1].content = lastEvent.text
       /\ messages[lastEvent.base + 2].type = "assistant"

\* C2: in the canonical component, while a text request is in flight, a text
\* submit or a voice-button press changes neither the log, nor the recording
\* flag, nor the outstanding requests.
C2_NoOpWhileAwaitingReply ==
    [][(/\ variant = "canonical"
        /\ textFlights # <<>>
        /\ lastEvent'.name \in {"HandleTextSubmit", "handleVoiceClick"})
       => /\ messages' = messages
          /\ isRecording' = isRecording
          /\ textFlights' = textFlights
          /\ transcribeFetcher' = transcribeFetcher]_vars

\* the relay answered with {error: ...} and nothing else
RelayFailure(d) == Has(d, "error") /\ ~Has(d, "transcription")

\* C3: in the canonical component, once the fetcher is idle again with the
\* relay's failure body, exactly one assistant turn was appended and the
\* component is still there, not transcribing.
C3_RelayFailureOneErrorTurn ==
    (/\ variant = "canonical"
     /\ lastEvent.name = "TranscribeLoadDone"
     /\ RelayFailure(transcribeFetcher.data))
    => /\ ~crashed
       /\ Len(Appended) = 1
       /\ Appended[1].type = "assistant"
       /\ ~isTranscribing

\* the chained relay's payload of a transcription whose chat-completion
\* call failed
ChainedCallFailed(d) ==
    /\ Has(d, "transcription") /\ ~Truthy(d.transcription, "error")
    /\ Has(d, "response") /\ Has(d.response, "error")

\* C4: in the canonical component, once the fetcher is idle again with a
\* transcription whose chained call failed, the effect has appended the user
\* voice turn with the transcribed text and then one assistant turn, and
\* nothing else happened.
C4_ChainedFailureUserThenError ==
    (/\ variant = "canonical"
     /\ lastEvent.name = "TranscribeLoadDone"
     /\ ChainedCallFailed(transcribeFetcher.data))
    => /\ ~crashed
       /\ Len(Appended) = 2
       /\ Appended[1].type = "user" /\ Appended[1].isVoice
       /\ Appended[1].content = transcribeFetcher.data.transcription.text
       /\ Appended[2].type = "assistant"

\* the recorders whose microphone stream is acquired and not stopped
LiveRecorders == {r \in Recorders : recorders[r].live}

\* C5: in the canonical component, at most one recorder holds a live
\* microphone stream, and it is the one mediaRecorderRef points to.
C5_OneRecordingSession ==
    variant = "canonical"
    => /\ Cardinality(LiveRecorders) <= 1
       /\ \A r \in LiveRecorders : mediaRecorderRef = r

\* C6: no two entries of the message log have the same id.
C6_UniqueIds ==
    \A i, j \in 1..Len(messages) :
        i # j => messages[i].id # messages[j].id

\* a transcription response the two-fetcher component takes as a success
TranscriptionSucceeded(d) == d # NoData /\ ~Truthy(d, "error")

\* C7, as claimed: in the two-fetcher component, once the fetcher is idle
\* again with a successful transcription, the log has grown by exactly
\* three entries: voice user turn, informational turn, reply or error turn.
C7_RecordingGrowsByThree ==
    (/\ variant = "twofetcher"
     /\ lastEvent.name = "TranscribeLoadDone"
     /\ TranscriptionSucceeded(transcribeFetcher.data))
    => /\ Len(Appended) = 3
       /\ Appended[1].type = "user" /\ Appended[1].isVoice
       /\ Appended[1].content = transcribeFetcher.data.text
       /\ Appended[2].type = "assistant"
       /\ Appended[3].type \in {"ai", "assistant"}

\* C7, amended: the third entry is there exactly when ai_response carries a
\* non-empty response (an "ai" turn with it) or else a non-empty error (an
\* assistant turn); otherwise the log has grown by exactly two entries.
C7_RecordingGrowsByTwoOrThree ==
    (/\ variant = "twofetcher"
     /\ lastEvent.name = "TranscribeLoadDone"
     /\ TranscriptionSucceeded(transcribeFetcher.data))
    => LET d == transcribeFetcher.data
           hasReply == Has(d, "ai_response") /\ Has(d.ai_response, "response")
                       /\ d.ai_response.response # <<>>
           hasError == Has(d, "ai_response") /\ Has(d.ai_response, "error")
                       /\ d.ai_response.error # <<>>
       IN  /\ Len(Appended) = IF hasReply \/ hasError THEN 3 ELSE 2
           /\ Appended[1].type = "user" /\ Appended[1].isVoice
           /\ Appended[1].content = d.text
           /\ Appended[2].type = "assistant" /\ ~Appended[2].isVoice
           /\ Appended[2].content =
                 <<"Transcription (">> \o d.language \o <<"): \"">>
                    \o d.text \o <<"\"">>
           /\ hasReply => /\ Appended[3].type = "ai"
                          /\ Appended[3].content = d.ai_response.response
           /\ (~hasReply /\ hasError) => Appended[3].type = "assistant"

\* C7's case: a successful transcription without ai_response was consumed
C7_Witness ==
    /\ variant = "twofetcher"
    /\ lastEvent.name = "TranscribeLoadDone"
    /\ TranscriptionSucceeded(transcribeFetcher.data)
    /\ ~Has(transcribeFetcher.data, "ai_response")
    /\ Len(Appended) = 2

\* C8: in every component and every state, a submit of the text form with
\* an empty or whitespace-only input changes nothing of the component's
\* state (so no turn is appended and no request is issued).
C8_BlankSubmitChangesNothing ==
    [][(lastEvent'.name = "HandleTextSubmit" /\ OnlySpaces(textInput))
       => UNCHANGED progVars]_vars

\* C8's case: a whitespace-only input was submitted while recording
C8_Witness ==
    /\ lastEvent.name = "HandleTextSubmit"
    /\ textInput = <<SP>>
    /\ isRecording

C10_NoOpWhileTranscribing ==
    [][(/\ variant = "canonical"
        /\ transcribeFetcher.state # "idle"
        /\ lastEvent'.name \in {"HandleTextSubmit", "handleVoiceClick"})
       => UNCHANGED progVars]_vars

\* C10's case: a text was submitted while the transcription was in flight
C10_Witness ==
    /\ variant = "canonical"
    /\ transcribeFetcher.state # "idle"
    /\ lastEvent.name = "HandleTextSubmit"
    /\ ~OnlySpaces(textInput)

\* C11: in the canonical component, while a recording is running and no
\* request is in flight, a text submit with non-empty input appends no turn
\* and issues no network request.
C11_NoTextSubmitWhileRecording ==
    [][(/\ variant = "canonical"
        /\ isRecording
        /\ ~AwaitingTranscription /\ ~AwaitingReply
        /\ ~OnlySpaces(textInput)
        /\ lastEvent'.name = "HandleTextSubmit")
       => /\ messages' = messages
          /\ textFlights' = textFlights
          /\ transcribeFetcher' = transcribeFetcher]_vars

\* C19: in the canonical component, the task that ends a recording session
\* submits one transcription request whose payload is built from exactly
\* the chunks of that session: here the one chunk its recorder delivered,
\* which is the last of the buffer.
C19_OneRequestWithSessionChunks ==
    (variant = "canonical" /\ lastEvent.name = "RecorderStopped")
    => /\ transcribeFetcher.state = "submitting"
       /\ transcribeFetcher.form
            = [file |-> [isBlob |-> TRUE,
                         parts |-> << chunksRef[Len(chunksRef)] >>]]

\* C20: in the canonical component, once the stop of a recording session
\* has been handled, and once startRecording failed after the stream was
\* acquired, every track of the session's stream is stopped and chunksRef
\* is empty.
C20_SessionDestroyed ==
    (variant = "canonical"
     /\ lastEvent.name \in {"RecorderStopped", "MediaRecorderThrows"})
    => /\ \A r \in Recorders :
            recorders[r].state \in {"inactive", "failed"} => ~recorders[r].live
       /\ chunksRef = <<>>

\* C23: the message log is append-only: in every step of every component
\* the old log is a prefix of the new log.
C23_LogAppendOnly ==
    [][/\ Len(messages') >= Len(messages)
       /\ \A i \in 1..Len(messages) : messages'[i] = messages[i]]_vars

\* C23's case: a task appended to a log that already had entries
C23_Witness ==
    /\ lastEvent.base >= 2
    /\ Len(messages) > lastEvent.base

\* C24: in the canonical component, if every request issued completes and a
\* running recording is stopped in the end, the controller always comes
\* back to Idle: the component is there, isRecording is false and nothing
\* is in flight.
C24_AlwaysBackToIdle ==
    (variant = "canonical" /\ ~ControllerIdle) ~> (ControllerIdle /\ ~crashed)

\* the same, but for the runs in which an effect threw
C24_BackToIdleUnlessCrashed ==
    (variant = "canonical" /\ ~ControllerIdle) ~> (ControllerIdle \/ crashed)

\* C25: in the echo and the two-fetcher component, once the error turn of a
\* transcription response carrying an error has been appended, a change of
\* the fetcher's state with the same data held (loading to idle, or a later
\* submission) appends nothing.
C25_ErrorTurnOnce ==
    [][(/\ variant \in {"echo", "twofetcher"}
        /\ "error" \in DOMAIN transcribeFetcher.data
        /\ transcribeFetcher'.data = transcribeFetcher.data
        /\ transcribeFetcher'.state # transcribeFetcher.state)
       => messages' = messages]_vars

\* the turns startRecording's catch block appends belong to no user turn
IsMicError(m) == m.content = MicError.content

\* C26: in the canonical component the turns of different actions never
\* interleave: in every log each assistant turn produced for an action
\* directly follows a user turn, and each user turn but the last is
\* directly followed by its assistant turn.
C26_TurnsNeverInterleave ==
    variant = "canonical"
    => \A i \in 1..Len(messages) :
         /\ (messages[i].type = "assistant" /\ ~IsMicError(messages[i]))
            => i > 1 /\ messages[i - 1].type = "user"
         /\ (messages[i].type = "user" /\ i < Len(messages))
            => messages[i + 1].type = "assistant"
               /\ ~IsMicError(messages[i + 1])

\* the fetcher holds the data of a successful transcription
HoldsTranscription ==
    IF variant = "canonical"
    THEN /\ "transcription" \in DOMAIN transcribeFetcher.data
         /\ "error" \notin DOMAIN transcribeFetcher.data.transcription
    ELSE /\ "text" \in DOMAIN transcribeFetcher.data
         /\ "error" \notin DOMAIN transcribeFetcher.data

\* the positions of the voice turns in a log
VoiceTurns(msgs) == {i \in 1..Len(msgs) : msgs[i].type = "user" /\ msgs[i].isVoice}

\* C27: in the canonical and the two-fetcher component the turns of a
\* successful transcription are appended once, in the step that brings the
\* fetcher back to idle with that response; no other step appends a voice
\* turn, whatever data the fetcher still holds.
C27_TranscriptionConsumedOnce ==
    [][(variant \in {"canonical", "twofetcher"})
       => LET consumed == /\ HoldsTranscription
                          /\ transcribeFetcher.state = "loading"
                          /\ transcribeFetcher'.state = "idle"
              before == Cardinality(VoiceTurns(messages))
              after == Cardinality(VoiceTurns(messages'))
          IN  after = before + (IF consumed THEN 1 ELSE 0)]_vars

\* C27's case: a later recording was submitted while the fetcher still held
\* the data of the transcription consumed before
C27_Witness ==
    /\ variant \in {"canonical", "twofetcher"}
    /\ HoldsTranscription
    /\ transcribeFetcher.state = "submitting"
    /\ Cardinality(VoiceTurns(messages)) = 1
    /\ lastEvent.name = "RecorderStopped"

\* C29: in the simulated component isProcessing is true whenever a
\* simulated reply is still pending.
C29_ProcessingWhileReplyPending ==
    (variant = "simulated" /\ timers # <<>>) => isProcessing

-----------------------------------------------------------------------------
(* Claims about the relay endpoints, under RelaySpec                       *)

\* the request's form carries a Blob in `file`, spelled out
FileIsBlob(form) == "file" \in DOMAIN form /\ form.file.isBlob = TRUE

\* the number of calls a response's relay made to the service `to`
RECURSIVE CallsTo(_, _)
CallsTo(calls, to) ==
    IF calls = <<>> THEN 0
    ELSE (IF Head(calls).to = to THEN 1 ELSE 0) + CallsTo(Tail(calls), to)

\* a body of the shape {error: string}
ErrorBody(b) == DOMAIN b = {"error"}

\* C12: when the chained relay's upload to the transcription service is
\* answered with a non-2xx status or the fetch throws, queryDeepSeek is not
\* invoked and the relay answers 500 with a body {error}.
C12_UpstreamFailureNoQuery ==
    (/\ served.endpoint = "chained"
     /\ FileIsBlob(served.request)
     /\ served.t.kind \in {"status", "throw"})
    => /\ CallsTo(served.response.calls, "deepseek") = 0
       /\ served.response.status = 500
       /\ ErrorBody(served.response.body)

\* C12's case: the chained relay served an upload that the transcription
\* service answered with a non-2xx status
C12_Witness ==
    /\ served.endpoint = "chained"
    /\ FileIsBlob(served.request)
    /\ served.t.kind = "status"
    /\ CallsTo(served.response.calls, "transcribe") = 1
    /\ served.response.status = 500

\* C13: when the transcription service answers 2xx with a body that carries
\* an error field, the chained relay does not call queryDeepSeek and its
\* body reports the failure instead of {transcription, response}.
C13_ErrorFieldIsFailure ==
    (/\ served.endpoint = "chained"
     /\ FileIsBlob(served.request)
     /\ served.t.kind = "ok"
     /\ "error" \in DOMAIN served.t.body)
    => /\ CallsTo(served.response.calls, "deepseek") = 0
       /\ "transcription" \notin DOMAIN served.response.body
       /\ "error" \in DOMAIN served.response.body

\* C14: every response of the chained relay is {transcription, response}
\* with a reply and status 200, or {error} with status 400, or {error} with
\* status 500; a failed chat-completion call gives the last.
C14_ThreeResponseShapes ==
    served.endpoint = "chained"
    => LET r == served.response
       IN  \/ /\ r.status = 200
              /\ DOMAIN r.body = {"transcription", "response"}
              /\ "message" \in DOMAIN r.body.response
              /\ "error" \notin DOMAIN r.body.response
           \/ r.status = 400 /\ ErrorBody(r.body)
           \/ r.status = 500 /\ ErrorBody(r.body)

\* a request a relay answered with a server error
Failed(sv) == sv.endpoint # "none" /\ sv.response.status >= 500

\* two served requests that are alike but for the message of the failure:
\* the message of the rejection, the status the service answered, or the
\* parser's message
DifferOnlyInMessage(a, b) ==
    /\ a.endpoint = b.endpoint
    /\ a.t.kind = b.t.kind
    /\ a.q.kind = b.q.kind
    /\ DOMAIN a.request = DOMAIN b.request
    /\ \/ "syntaxError" \in DOMAIN a.request
       \/ a.request = b.request

\* C15: two failing requests to a relay that differ only in the failure's
\* message receive identical bodies (here: two requests served one after
\* the other).
C15_GenericErrorBody ==
    [][(Failed(served) /\ Failed(served') /\ DifferOnlyInMessage(served, served'))
       => served'.response.body = served.response.body]_vars

\* C16: the text relay answers a request without a message, with an empty
\* message or with a body that is no JSON with 400 and {error}, without
\* calling queryDeepSeek; it answers 500 only when queryDeepSeek failed.
C16_TextRelayInvalidInput400 ==
    served.endpoint = "textmessage"
    => LET valid == /\ "message" \in DOMAIN served.request
                    /\ served.request.message # <<>>
       IN  /\ ~valid => /\ served.response.status = 400
                        /\ ErrorBody(served.response.body)
                        /\ served.response.calls = <<>>
           /\ served.response.status = 500
              => valid /\ served.q.kind # "reply"

\* C17: the process-text relay answers a request that supplies no text
\* field with 400 and {error} and makes no upstream call.
C17_ProcessTextMissingText400 ==
    (/\ served.endpoint = "process-text"
     /\ "syntaxError" \notin DOMAIN served.request
     /\ "text" \notin DOMAIN served.request)
    => /\ served.response.status = 400
       /\ ErrorBody(served.response.body)
       /\ served.response.calls = <<>>

\* C18: both transcription relays answer a form whose `file` is absent or
\* no Blob with 400 and {error: "No audio file provided"} and no upstream
\* request, and send exactly one upload when `file` is a Blob.
C18_AudioInputCheck ==
    (/\ served.endpoint \in {"chained", "transcribe"}
     /\ "malformed" \notin DOMAIN served.request)
    => IF FileIsBlob(served.request)
       THEN CallsTo(served.response.calls, "transcribe") = 1
       ELSE /\ served.response.status = 400
            /\ served.response.body = [error |-> <<"No audio file provided">>]
            /\ served.response.calls = <<>>

\* C18's case: a relay served a form whose `file` is a string
C18_Witness ==
    /\ served.endpoint \in {"chained", "transcribe"}
    /\ "file" \in DOMAIN served.request
    /\ ~FileIsBlob(served.request)
    /\ served.response.status = 400

\* C21: queryDeepSeek makes exactly one chat-completion call and never
\* throws: for a reply it returns {message, done: true}, and for an empty
\* choices list or a rejected call the value {error, code: 500}.
C21_QueryDeepSeekOneCallNoThrow ==
    (served.endpoint = "chained" /\ "response" \in DOMAIN served.response.body)
    => LET r == served.response.body.response
       IN  /\ CallsTo(served.response.calls, "deepseek") = 1
           /\ IF served.q.kind = "reply"
              THEN DOMAIN r = {"message", "done"} /\ r.done = TRUE
              ELSE DOMAIN r = {"error", "code"} /\ r.code = 500

\* C21's case: the chat-completion API returned an empty choices list
C21_Witness ==
    /\ served.endpoint = "chained"
    /\ "response" \in DOMAIN served.response.body
    /\ served.q.kind = "empty"
    /\ "error" \in DOMAIN served.response.body.response

\* the one user-role message with the transcription's text
UserMessageOf(body) ==
    << [role |-> "user",
        content |-> IF "text" \in DOMAIN body THEN body.text ELSE Undefined] >>

\* C28: whenever the chained relay's upload is answered 2xx, queryDeepSeek
\* is invoked exactly once, after the upload, with a single user-role
\* message whose content is the transcribed text, and the payload pairs
\* that transcription with the call's result.
C28_ChainedCallAfterTranscription ==
    (/\ served.endpoint = "chained"
     /\ FileIsBlob(served.request)
     /\ served.t.kind \in {"ok", "nonjson"}
     /\ served.t.status = 200)
    => /\ Len(served.response.calls) = 2
       /\ served.response.calls[1].to = "transcribe"
       /\ served.response.calls[2].to = "deepseek"
       /\ "body" \in DOMAIN served.t
       /\ "text" \in DOMAIN served.t.body
       /\ served.response.calls[2].messages = UserMessageOf(served.t.body)
       /\ DOMAIN served.response.body = {"transcription", "response"}
       /\ served.response.body.transcription = served.t.body

\* C28 for the 2xx answers whose body is JSON; the content of the message is
\* the body's text field, undefined when the body carries none
C28_ChainedCallAfterJsonTranscription ==
    (/\ served.endpoint = "chained"
     /\ FileIsBlob(served.request)
     /\ served.t.kind = "ok")
    => /\ Len(served.response.calls) = 2
       /\ served.response.calls[1].to = "transcribe"
       /\ served.response.calls[2].to = "deepseek"
       /\ served.response.calls[2].messages = UserMessageOf(served.t.body)
       /\ DOMAIN served.response.body = {"transcription", "response"}
       /\ served.response.body.transcription = served.t.body
       /\ \/ /\ served.q.kind = "reply"
             /\ served.response.body.response.message.content = served.q.content
          \/ /\ served.q.kind # "reply"
             /\ "error" \in DOMAIN served.response.body.response

\* C28's case: a transcription with a text was chained into a reply
C28_Witness ==
    /\ served.endpoint = "chained"
    /\ served.t.kind = "ok"
    /\ "text" \in DOMAIN served.t.body
    /\ served.q.kind = "reply"
    /\ Len(served.response.calls) = 2
    /\ served.response.status = 200

-----------------------------------------------------------------------------
(* Claims about streamDeepSeek, under StreamSpec                           *)

\* the non-empty content increments among the first n chunks of up, in order
RECURSIVE Increments(_, _)
Increments(up, n) ==
    IF n = 0 THEN <<>>
    ELSE LET c == Chunks[up[n]]
         IN  Increments(up, n - 1)
             \o (IF c.kind = "content" /\ Len(c.content) > 0
                 THEN <<c.content>> ELSE <<>>)

\* the upstream iterator rejects at one of the first n chunks of up
FailsWithin(up, n) == \E k \in 1..n : Chunks[up[k]].kind = "fail"

\* C22: streamDeepSeek has yielded exactly the non-empty content increments
\* of the chunks it consumed, in arrival order, each once; it returns only
\* at the end of an upstream stream that did not fail, and it throws only
\* when create() rejected or at the chunk where the iteration failed, with
\* the increments before that point yielded and none after.
C22_StreamYieldsIncrements ==
    stream.status # "none"
    => /\ stream.yielded = Increments(stream.up, stream.pos)
       /\ ~FailsWithin(stream.up, stream.pos - 1)
       /\ stream.status = "returned"
          => stream.pos = Len(stream.up) /\ ~FailsWithin(stream.up, stream.pos)
       /\ stream.status = "thrown"
          => \/ stream.pos = 0 /\ stream.up = <<>>
             \/ stream.pos > 0 /\ Chunks[stream.up[stream.pos]].kind = "fail"
       /\ (stream.status = "suspended" /\ stream.pos > 0)
          => stream.yielded # <<>>
             /\ stream.yielded[Len(stream.yielded)]
                  = Chunks[stream.up[stream.pos]].content

\* C22's case: the iteration failed after an empty increment was skipped
\* and an increment was yielded
C22_Witness ==
    /\ stream.status = "thrown"
    /\ stream.pos = 3
    /\ Len(stream.yielded) = 1
    /\ \E k \in 1..2 : Chunks[stream.up[k]] = [kind |-> "content", content |-> <<>>]

=============================================================================
